---- MODULE Spec2Model ----
(***************************************************************************)
(* Model of the code-safety validator (package validator, ArcPy rule set)  *)
(* and of the HTTP handlers that call it.                                  *)
(*                                                                         *)
(* Code snippets are real character strings.  The regular expressions of   *)
(* the validator are kept as item lists mirroring their source text and    *)
(* are run by a small backtracking matcher (leftmost-first, greedy), so a  *)
(* match is decided character by character as regexp.MatchString decides   *)
(* it.  Message texts are rendered in ASCII (the Go literals are Russian); *)
(* the formatted argument is kept verbatim.                                *)
(***************************************************************************)
EXTENDS Integers, Sequences, FiniteSets, TLC

(***************************************************************************)
(* Character classes of the regular expressions.                           *)
(***************************************************************************)
Lower == {"a","b","c","d","e","f","g","h","i","j","k","l","m",
          "n","o","p","q","r","s","t","u","v","w","x","y","z"}

Upper == {"A","B","C","D","E","F","G","H","I","J","K","L","M",
          "N","O","P","Q","R","S","T","U","V","W","X","Y","Z"}

Digit == {"0","1","2","3","4","5","6","7","8","9"}
\* \s of RE2: [\t\n\f\r ]
Space == {" ", "\t", "\n", "\f", "\r"}
\* [a-zA-Z_]
Ident == Lower \cup Upper \cup {"_"}
\* [a-zA-Z0-9_.]
ModuleChar == Lower \cup Upper \cup Digit \cup {"_", "."}
\* ['"]
Quote == {"'", "\""}
\* the class negated in [^)]
Paren == {")"}

(***************************************************************************)
(* Regular-expression items.  t: kind of item; s: literal text; c: class;  *)
(* neg: class negated; min: least repetitions; a: alternatives in order.   *)
(***************************************************************************)
Lit(str) == [t |-> "lit", s |-> str, c |-> {}, neg |-> FALSE, min |-> 0, a |-> <<>>]

Star(cls) == [t |-> "rep", s |-> "", c |-> cls, neg |-> FALSE, min |-> 0, a |-> <<>>]

Plus(cls) == [t |-> "rep", s |-> "", c |-> cls, neg |-> FALSE, min |-> 1, a |-> <<>>]

NotStar(cls) == [t |-> "rep", s |-> "", c |-> cls, neg |-> TRUE, min |-> 0, a |-> <<>>]

NotPlus(cls) == [t |-> "rep", s |-> "", c |-> cls, neg |-> TRUE, min |-> 1, a |-> <<>>]

One(cls) == [t |-> "one", s |-> "", c |-> cls, neg |-> FALSE, min |-> 1, a |-> <<>>]
\* (?m)^
Bol == [t |-> "bol", s |-> "", c |-> {}, neg |-> FALSE, min |-> 0, a |-> <<>>]
\* (?:x|y)
Alt(alts) == [t |-> "alt", s |-> "", c |-> {}, neg |-> FALSE, min |-> 0, a |-> alts]

\* a compiled expression keeps its source text (Regexp.String)
Compile(expr, items) == [src |-> expr, re |-> items]

(***************************************************************************)
(* The matcher.                                                            *)
(***************************************************************************)
CharAt(s, i) == SubSeq(s, i, i)

\* the literal lit stands in s at position i
At(s, i, lit) ==
    /\ i + Len(lit) - 1 <= Len(s)
    /\ SubSeq(s, i, i + Len(lit) - 1) = lit

InClass(ch, it) == IF it.neg THEN ch \notin it.c ELSE ch \in it.c

\* number of consecutive characters of the item's class from position i on
RunLen(s, i, it) ==
    LET stops == {j \in i..Len(s) : ~InClass(CharAt(s, j), it)}
    IN  IF stops = {} THEN (IF i > Len(s) THEN 0 ELSE Len(s) - i + 1)
        ELSE (CHOOSE j \in stops : \A k \in stops : j <= k) - i

\* Items k.. of re matched at position i of s: <<>> when they do not match,
\* else the start position of every item followed by the end of the match.
\* A repetition takes the longest run that lets the rest match (greedy), an
\* alternation the first alternative that does.
RECURSIVE MatchPos(_, _, _, _)
RECURSIVE TryRep(_, _, _, _, _, _)
RECURSIVE TryAlt(_, _, _, _, _)
MatchPos(re, k, s, i) ==
    IF k > Len(re) THEN <<i>>
    ELSE LET it == re[k] IN
         CASE it.t = "lit" ->
                IF At(s, i, it.s)
                THEN LET r == MatchPos(re, k + 1, s, i + Len(it.s))
                     IN  IF r = <<>> THEN <<>> ELSE <<i>> \o r
                ELSE <<>>
           [] it.t = "one" ->
                IF i <= Len(s) /\ InClass(CharAt(s, i), it)
                THEN LET r == MatchPos(re, k + 1, s, i + 1)
                     IN  IF r = <<>> THEN <<>> ELSE <<i>> \o r
                ELSE <<>>
           [] it.t = "bol" ->
                IF i = 1 \/ (i - 1 <= Len(s) /\ CharAt(s, i - 1) = "\n")
                THEN LET r == MatchPos(re, k + 1, s, i)
                     IN  IF r = <<>> THEN <<>> ELSE <<i>> \o r
                ELSE <<>>
           [] it.t = "rep" -> TryRep(re, k, s, i, RunLen(s, i, it), it.min)
           [] it.t = "alt" -> TryAlt(re, k, s, i, 1)

\* a repetition that can take min..j characters: the longest that lets the
\* rest match
TryRep(re, k, s, i, j, min) ==
    LET fits == {n \in min..j : MatchPos(re, k + 1, s, i + n) # <<>>}
    IN  IF fits = {} THEN <<>>
        ELSE <<i>> \o MatchPos(re, k + 1, s, i + (CHOOSE n \in fits : \A m \in fits : m <= n))

TryAlt(re, k, s, i, n) ==
    IF n > Len(re[k].a) THEN <<>>
    ELSE LET lit == re[k].a[n]
             r == IF At(s, i, lit)
                  THEN MatchPos(re, k + 1, s, i + Len(lit))
                  ELSE <<>>
         IN  IF r = <<>> THEN TryAlt(re, k, s, i, n + 1) ELSE <<i>> \o r

\* regexp.MatchString / Regexp.MatchString: a match anywhere in s.  An
\* expression that begins with a literal can only match where the literal
\* stands, so only those positions are tried.
MatchString(re, s) ==
    IF re[1].t = "lit"
    THEN LET lit == re[1].s
             len == Len(re[1].s)
         IN  \E i \in 1..(Len(s) - len + 1) :
                /\ SubSeq(s, i, i + len - 1) = lit
                /\ MatchPos(re, 2, s, i + len) # <<>>
    ELSE \E i \in 1..(Len(s) + 1) : MatchPos(re, 1, s, i) # <<>>

\* the leftmost position from pos on at which re matches, 0 when there is none
Leftmost(re, s, pos) ==
    LET starts == {i \in pos..(Len(s) + 1) : MatchPos(re, 1, s, i) # <<>>}
    IN  IF starts = {} THEN 0
        ELSE CHOOSE i \in starts : \A j \in starts : i <= j

\* Regexp.FindAllStringSubmatch(s, -1): leftmost matches, not overlapping,
\* each given as its item positions
RECURSIVE FindAll(_, _, _)
FindAll(re, s, pos) ==
    LET i == Leftmost(re, s, pos) IN
    IF i = 0 THEN <<>>
    ELSE LET m == MatchPos(re, 1, s, i)
         IN  <<m>> \o FindAll(re, s, IF m[Len(m)] > i THEN m[Len(m)] ELSE i + 1)

\* strings.Contains
Contains(s, sub) ==
    LET len == Len(sub)
    IN  \E i \in 1..(Len(s) - len + 1) : SubSeq(s, i, i + len - 1) = sub

\* strings.HasPrefix
HasPrefix(s, prefix) == At(s, 1, prefix)

(***************************************************************************)
(* The rule set.                                                           *)
(***************************************************************************)
\* regexp.MustCompile of each pattern of compileDangerousPatterns: the
\* source text and the items it compiles to, in the order of the table
CompiledPatterns == <<
    \* File deletion
    Compile("os\\.remove\\s*\\(", <<Lit("os.remove"), Star(Space), Lit("(")>>),
    Compile("os\\.unlink\\s*\\(", <<Lit("os.unlink"), Star(Space), Lit("(")>>),
    Compile("shutil\\.rmtree\\s*\\(", <<Lit("shutil.rmtree"), Star(Space), Lit("(")>>),
    Compile("pathlib\\.Path\\s*\\([^)]+\\)\\.unlink\\s*\\(",
            <<Lit("pathlib.Path"), Star(Space), Lit("("), NotPlus(Paren),
              Lit(").unlink"), Star(Space), Lit("(")>>),
    \* System commands
    Compile("subprocess\\.[a-zA-Z_]+\\s*\\(",
            <<Lit("subprocess."), Plus(Ident), Star(Space), Lit("(")>>),
    Compile("os\\.system\\s*\\(", <<Lit("os.system"), Star(Space), Lit("(")>>),
    Compile("os\\.popen\\s*\\(", <<Lit("os.popen"), Star(Space), Lit("(")>>),
    Compile("commands\\.[a-zA-Z_]+\\s*\\(",
            <<Lit("commands."), Plus(Ident), Star(Space), Lit("(")>>),
    \* Code execution
    Compile("eval\\s*\\(", <<Lit("eval"), Star(Space), Lit("(")>>),
    Compile("compile\\s*\\(", <<Lit("compile"), Star(Space), Lit("(")>>),
    Compile("__import__\\s*\\(", <<Lit("__import__"), Star(Space), Lit("(")>>),
    \* File writing
    Compile("open\\s*\\([^)]*['\"]w['\"]",
            <<Lit("open"), Star(Space), Lit("("), NotStar(Paren),
              One(Quote), Lit("w"), One(Quote)>>),
    Compile("open\\s*\\([^)]*['\"]a['\"]",
            <<Lit("open"), Star(Space), Lit("("), NotStar(Paren),
              One(Quote), Lit("a"), One(Quote)>>),
    \* Network
    Compile("urllib\\.[a-zA-Z_]+", <<Lit("urllib."), Plus(Ident)>>),
    Compile("requests\\.[a-zA-Z_]+", <<Lit("requests."), Plus(Ident)>>),
    Compile("http\\.[a-zA-Z_]+", <<Lit("http."), Plus(Ident)>>),
    Compile("socket\\.[a-zA-Z_]+", <<Lit("socket."), Plus(Ident)>>),
    \* Dangerous builtins
    Compile("globals\\s*\\(\\s*\\)",
            <<Lit("globals"), Star(Space), Lit("("), Star(Space), Lit(")")>>),
    Compile("locals\\s*\\(\\s*\\)",
            <<Lit("locals"), Star(Space), Lit("("), Star(Space), Lit(")")>>),
    Compile("vars\\s*\\(\\s*\\)",
            <<Lit("vars"), Star(Space), Lit("("), Star(Space), Lit(")")>>),
    Compile("delattr\\s*\\(", <<Lit("delattr"), Star(Space), Lit("(")>>),
    Compile("setattr\\s*\\(", <<Lit("setattr"), Star(Space), Lit("(")>>) >>

\* a *regexp.Regexp is held as its source text; Prog is what it runs
RECURSIVE ProgramsFrom(_)
ProgramsFrom(n) ==
    IF n > Len(CompiledPatterns) THEN <<>>
    ELSE (CompiledPatterns[n].src :> CompiledPatterns[n].re) @@ ProgramsFrom(n + 1)

Programs == ProgramsFrom(1)

Prog(pattern) == Programs[pattern]

\* compileDangerousPatterns
compileDangerousPatterns == [n \in 1..Len(CompiledPatterns) |-> CompiledPatterns[n].src]

\* a Go map literal: its entries in the order written
MapEntry(key, val) == [k |-> key, v |-> val]

\* m[key] of a map[string]bool: false for a key that is absent
MapGet(m, key) == \E n \in 1..Len(m) : m[n].k = key /\ m[n].v

\* getAllowedModules
getAllowedModules == <<
    MapEntry("arcpy", TRUE),
    MapEntry("os.path", TRUE),
    MapEntry("math", TRUE),
    MapEntry("datetime", TRUE),
    MapEntry("json", TRUE),
    MapEntry("re", TRUE),
    MapEntry("collections", TRUE) >>

\* getAllowedArcPyFunctions
getAllowedArcPyFunctions == <<
    MapEntry("arcpy.AddMessage", TRUE),
    MapEntry("arcpy.AddWarning", TRUE),
    MapEntry("arcpy.AddError", TRUE),
    MapEntry("arcpy.analysis.Buffer", TRUE),
    MapEntry("arcpy.analysis.Clip", TRUE),
    MapEntry("arcpy.analysis.Intersect", TRUE),
    MapEntry("arcpy.analysis.Union", TRUE),
    MapEntry("arcpy.analysis.SpatialJoin", TRUE),
    MapEntry("arcpy.management.GetCount", TRUE),
    MapEntry("arcpy.management.SelectLayerByLocation", TRUE),
    MapEntry("arcpy.management.SelectLayerByAttribute", TRUE),
    MapEntry("arcpy.management.CopyFeatures", TRUE),
    MapEntry("arcpy.Describe", TRUE),
    MapEntry("arcpy.ListFields", TRUE),
    MapEntry("arcpy.ListFeatureClasses", TRUE),
    MapEntry("arcpy.mp.ArcGISProject", TRUE) >>

\* NewValidator
NewValidator == [dangerousPatterns |-> compileDangerousPatterns,
                 allowedModules    |-> getAllowedModules,
                 allowedArcPy      |-> getAllowedArcPyFunctions]

(***************************************************************************)
(* Import check.  A range over a Go map visits the entries from a start    *)
(* the runtime picks; a function that ranges over a map therefore has a    *)
(* set of possible outcomes, one per order, and is modelled by that set.   *)
(***************************************************************************)
Rotate(m, n) == [i \in 1..Len(m) |-> m[((i + n - 1) % Len(m)) + 1]]

\* the orders in which `for k := range m` can visit m
MapOrders(m) == IF Len(m) = 0 THEN {<<>>} ELSE {Rotate(m, n) : n \in 0..(Len(m) - 1)}

\* mutant: the loop answers from the first entry it visits
SubmoduleFirstEntry(order, module, n) ==
    IF n > Len(order) THEN FALSE
    ELSE HasPrefix(module, order[n].k \o ".")

\* isModuleAllowed, the loop over allowedModules in one order
RECURSIVE SubmoduleLoop(_, _, _)
SubmoduleLoop(order, module, n) ==
    IF n > Len(order) THEN FALSE
    ELSE IF HasPrefix(module, order[n].k \o ".") THEN TRUE
    ELSE SubmoduleLoop(order, module, n + 1)

\* mutant: the root namespace is allowed as a module and as a parent of
\* submodules, not as a prefix of any name
isModuleAllowedRootDotted(v, module) ==
    IF MapGet(v.allowedModules, module) THEN {TRUE}
    ELSE {SubmoduleLoop(order, module, 1) : order \in MapOrders(v.allowedModules)}

\* isModuleAllowed: the set of values it can return
isModuleAllowed(v, module) ==
    IF MapGet(v.allowedModules, module) THEN {TRUE}
    ELSE IF HasPrefix(module, "arcpy") THEN {TRUE}
    ELSE {SubmoduleLoop(order, module, 1) : order \in MapOrders(v.allowedModules)}

\* mutant: the pattern without the anchor at the start of a line
importPatternUnanchored ==
    <<Star(Space), Star(Space), Alt(<<"import", "from">>), Plus(Space), Plus(ModuleChar)>>

\* (?m)^\s*(?:import|from)\s+([a-zA-Z0-9_.]+)
importPattern == <<Bol, Star(Space), Alt(<<"import", "from">>), Plus(Space), Plus(ModuleChar)>>

\* match[1]: the text of the capture group, the last item of importPattern
Submatch1(code, m) == SubSeq(code, m[5], m[6] - 1)

\* fmt.Sprintf of the import error
ImportError(module) == "Module '" \o module \o "' is not allowed"

\* validateImports, the loop over the matches from match n on: the error
\* lists it can build
RECURSIVE ImportLoop(_, _, _, _)
ImportLoop(v, code, matches, n) ==
    IF n > Len(matches) THEN {<<>>}
    ELSE LET module == Submatch1(code, matches[n])
             rest   == ImportLoop(v, code, matches, n + 1)
         IN  UNION {{(IF ok THEN <<>> ELSE <<ImportError(module)>>) \o r : r \in rest}
                    : ok \in isModuleAllowed(v, module)}

\* mutant: a module that the known-safe API set names is let through
validateImportsKnownAPI(v, code) ==
    {<<SelectSeq(errors,
                 LAMBDA e : \A n \in 1..Len(v.allowedArcPy) :
                               ~(v.allowedArcPy[n].v /\ e = ImportError(v.allowedArcPy[n].k))),
       <<>>>>
     : errors \in ImportLoop(v, code, FindAll(importPattern, code, 1), 1)}

\* validateImports: the (errors, warnings) pairs it can return
validateImports(v, code) ==
    {<<errors, <<>>>> : errors \in ImportLoop(v, code, FindAll(importPattern, code, 1), 1)}

(***************************************************************************)
(* Heuristics.                                                             *)
(***************************************************************************)
\* hasFileOperations
FileOperationPatterns == <<
    <<Lit("open"), Star(Space), Lit("(")>>,      \* open\s*\(
    <<Lit(".write"), Star(Space), Lit("(")>>,    \* \.write\s*\(
    <<Lit(".read"), Star(Space), Lit("(")>> >>   \* \.read\s*\(

hasFileOperations(code) ==
    \E n \in 1..Len(FileOperationPatterns) : MatchString(FileOperationPatterns[n], code)

\* hasNetworkOperations
NetworkOperationPatterns == <<
    <<Lit("urllib")>>,                           \* urllib
    <<Lit("requests")>>,                         \* requests
    <<Lit("http.client")>>,                      \* http\.client
    <<Lit("socket"), Star(Space), Lit("(")>>,    \* socket\s*\(
    <<Lit("urlopen")>> >>                        \* urlopen

hasNetworkOperations(code) ==
    \E n \in 1..Len(NetworkOperationPatterns) : MatchString(NetworkOperationPatterns[n], code)

\* hasSystemCalls
SystemCallPatterns == <<
    <<Lit("subprocess")>>,                       \* subprocess
    <<Lit("os.system")>>,                        \* os\.system
    <<Lit("os.popen")>>,                         \* os\.popen
    <<Lit("os.spawn")>>,                         \* os\.spawn
    <<Lit("commands.")>> >>                      \* commands\.

hasSystemCalls(code) ==
    \E n \in 1..Len(SystemCallPatterns) : MatchString(SystemCallPatterns[n], code)

\* hasCodeInjection
hasCodeInjection(code) ==
    IF Contains(code, "exec(") THEN TRUE
    ELSE IF Contains(code, "eval(") THEN TRUE
    ELSE IF Contains(code, "compile(") THEN TRUE
    ELSE FALSE

(***************************************************************************)
(* ValidateCode, check by check.                                           *)
(***************************************************************************)
\* mutant: the result left at the zero value of its type
InitialResultUnset == [IsValid |-> FALSE, Errors |-> <<>>, Warnings |-> <<>>, Score |-> 0]

\* the ValidationResult ValidateCode starts from
InitialResult == [IsValid |-> TRUE, Errors |-> <<>>, Warnings |-> <<>>, Score |-> 100]

\* mutant: the error does not say which pattern was found
PatternErrorUnnamed(pattern) == "Dangerous pattern found"

\* fmt.Sprintf of the dangerous-pattern error
PatternError(pattern) == "Dangerous pattern found: " \o pattern

\* mutant: the error is appended and IsValid is left as it was
AddErrorStaysValid(result, msg, penalty) ==
    [result EXCEPT !.Errors = Append(@, msg), !.Score = @ - penalty]

\* mutant: the newest error is put in front of the list
AddErrorInFront(result, msg, penalty) ==
    [result EXCEPT !.Errors = <<msg>> \o @, !.IsValid = FALSE, !.Score = @ - penalty]

\* one finding recorded as an error
AddError(result, msg, penalty) ==
    [result EXCEPT !.Errors = Append(@, msg), !.IsValid = FALSE, !.Score = @ - penalty]

\* the patterns of v.dangerousPatterns that match the snippet, in loop order
MatchingPatterns(v, code) ==
    SelectSeq(v.dangerousPatterns, LAMBDA pattern : MatchString(Prog(pattern), code))

\* the body of the loop, run for the matching patterns from the n-th on
RECURSIVE AddPatternErrors(_, _, _)
AddPatternErrors(result, matching, n) ==
    IF n > Len(matching) THEN result
    ELSE AddPatternErrors(AddError(result, PatternError(matching[n]), 50), matching, n + 1)

\* mutant: the loop records every pattern, without the match test
CheckDangerousPatternsUntested(v, code, result) ==
    AddPatternErrors(result, v.dangerousPatterns, 1)

\* the loop over dangerousPatterns
CheckDangerousPatterns(v, code, result) ==
    AddPatternErrors(result, MatchingPatterns(v, code), 1)

\* mutant: import errors are appended and IsValid is left as it was
CheckImportsStaysValid(result, imports) ==
    LET r == [result EXCEPT !.Errors = @ \o imports[1], !.Warnings = @ \o imports[2]]
    IN  IF Len(imports[1]) > 0 THEN [r EXCEPT !.Score = @ - 30] ELSE r

\* mutant: the import check deducts 10
CheckImportsTenPoints(result, imports) ==
    LET r == [result EXCEPT !.Errors = @ \o imports[1], !.Warnings = @ \o imports[2]]
    IN  IF Len(imports[1]) > 0
        THEN [r EXCEPT !.IsValid = FALSE, !.Score = @ - 10]
        ELSE r

\* mutant: 30 is deducted for every import error
CheckImportsPerError(result, imports) ==
    LET r == [result EXCEPT !.Errors = @ \o imports[1], !.Warnings = @ \o imports[2]]
    IN  IF Len(imports[1]) > 0
        THEN [r EXCEPT !.IsValid = FALSE, !.Score = @ - 30 * Len(imports[1])]
        ELSE r

\* the import check, given what validateImports returned
CheckImports(result, imports) ==
    LET importErrors   == imports[1]
        importWarnings == imports[2]
        r == [result EXCEPT !.Errors = @ \o importErrors, !.Warnings = @ \o importWarnings]
    IN  IF Len(importErrors) > 0
        THEN [r EXCEPT !.IsValid = FALSE, !.Score = @ - 30]
        ELSE r

\* mutant: a file operation makes the snippet invalid, with the warning only
CheckFileOperationsInvalidates(code, result) ==
    IF hasFileOperations(code)
    THEN [result EXCEPT !.Warnings = Append(@, "Code contains file operations - additional review required"),
                        !.IsValid = FALSE,
                        !.Score = @ - 10]
    ELSE result

\* mutant: one warning and 10 points for every file-operation pattern found
CheckFileOperationsPerPattern(code, result) ==
    LET found == SelectSeq(FileOperationPatterns, LAMBDA p : MatchString(p, code))
    IN  [result EXCEPT
            !.Warnings = @ \o [n \in 1..Len(found) |->
                                  "Code contains file operations - additional review required"],
            !.Score = @ - 10 * Len(found)]

\* mutant: a file operation is recorded as an error
CheckFileOperationsAsError(code, result) ==
    IF hasFileOperations(code)
    THEN [result EXCEPT !.Errors = Append(@, "Code contains file operations - additional review required"),
                        !.IsValid = FALSE,
                        !.Score = @ - 10]
    ELSE result

CheckFileOperations(code, result) ==
    IF hasFileOperations(code)
    THEN [result EXCEPT !.Warnings = Append(@, "Code contains file operations - additional review required"),
                        !.Score = @ - 10]
    ELSE result

\* mutant: a network operation is recorded as a warning
CheckNetworkOperationsAsWarning(code, result) ==
    IF hasNetworkOperations(code)
    THEN [result EXCEPT !.Warnings = Append(@, "Network operations are forbidden"), !.Score = @ - 40]
    ELSE result

CheckNetworkOperations(code, result) ==
    IF hasNetworkOperations(code)
    THEN AddError(result, "Network operations are forbidden", 40)
    ELSE result

\* mutant: a system call is recorded as a warning
CheckSystemCallsAsWarning(code, result) ==
    IF hasSystemCalls(code)
    THEN [result EXCEPT !.Warnings = Append(@, "System calls are forbidden"), !.Score = @ - 10]
    ELSE result

CheckSystemCalls(code, result) ==
    IF hasSystemCalls(code)
    THEN AddError(result, "System calls are forbidden", 50)
    ELSE result

\* mutant: the injection heuristic looks for exec( alone
CheckCodeInjectionExecOnly(code, result) ==
    IF Contains(code, "exec(")
    THEN AddError(result, "Code injection attempt detected (eval/exec)", 50)
    ELSE result

CheckCodeInjection(code, result) ==
    IF hasCodeInjection(code)
    THEN AddError(result, "Code injection attempt detected (eval/exec)", 50)
    ELSE result

\* mutant: the score is returned as the deductions left it
ClampScoreMissing(result) == result

\* Ensure score doesn't go below 0
ClampScore(result) == IF result.Score < 0 THEN [result EXCEPT !.Score = 0] ELSE result

\* mutant: ValidateCode returns after the first check that finds an error
ValidateCodeStopsEarly(v, code) ==
    LET r1 == CheckDangerousPatterns(v, code, InitialResult)
        r3(imports) == CheckFileOperations(code, CheckImports(r1, imports))
        r4(imports) == CheckNetworkOperations(code, r3(imports))
        r5(imports) == CheckSystemCalls(code, r4(imports))
    IN  {ClampScore(IF ~r1.IsValid THEN r1
                    ELSE IF ~r3(imports).IsValid THEN r3(imports)
                    ELSE IF ~r4(imports).IsValid THEN r4(imports)
                    ELSE IF ~r5(imports).IsValid THEN r5(imports)
                    ELSE CheckCodeInjection(code, r5(imports)))
         : imports \in validateImports(v, code)}

\* ValidateCode: the results it can return
ValidateCode(v, code) ==
    LET r1 == CheckDangerousPatterns(v, code, InitialResult)
    IN  {ClampScore(
            CheckCodeInjection(code,
              CheckSystemCalls(code,
                CheckNetworkOperations(code,
                  CheckFileOperations(code,
                    CheckImports(r1, imports))))))
         : imports \in validateImports(v, code)}

\* mutant: the verdict on every imported module is memoised in the Validator
ValidatorMemoising(val, code) ==
    LET matches == FindAll(importPattern, code, 1)
        missing == {Submatch1(code, matches[n]) : n \in 1..Len(matches)}
                      \ {val.allowedModules[n].k : n \in 1..Len(val.allowedModules)}
    IN  IF missing = {} THEN val
        ELSE [val EXCEPT !.allowedModules =
                 Append(@, MapEntry(CHOOSE module \in missing : TRUE, FALSE))]

\* what a call of ValidateCode does to the Validator it is called on: it
\* assigns no field of v and no entry of its maps
ValidatorAfter(val, code) == val

(***************************************************************************)
(* The storage of the ValidationResults.  Every call declares a result of   *)
(* its own, with Errors and Warnings as empty lists of its own that only   *)
(* that call appends to; heap holds these results with their lists, and a  *)
(* pointer is an index of heap.                                            *)
(***************************************************************************)
\* mutant: one result kept in the Validator and handed out again
ReusedResult(h) == 1

\* result := ValidationResult{...}: where the result and its lists are kept
NewResult(h) == Len(h) + 1

\* the heap with obj written at p
Store(h, p, obj) == IF p > Len(h) THEN Append(h, obj) ELSE [h EXCEPT ![p] = obj]

(***************************************************************************)
(* Snippets.  A snippet is the concatenation of at most MaxFrags fragments *)
(* of Python text; matches may run across the fragments.                   *)
(***************************************************************************)
MaxFrags == 2

\* import of the GIS root module
RootImport == "import arcpy\n"

\* statements that are one call into the GIS root namespace
GISCalls == {
    "arcpy.AddMessage(\"Done\")\n",
    "arcpy.analysis.Buffer(\"Rivers\", \"out\")\n",
    "arcpy.Raster(\"dem\").read()\n",
    "arcpy.AddMessage(\"10 requests\")\n" }

ImportLines == {
    "import os\n",
    "from os.path import join\n",
    "import json.decoder\n",
    "import math, shutil\n",
    "import arcpy_x\n",
    "import urllib.request\n" }

OtherFrags == {
    "os.remove(\"/tmp/x\")\n",
    "subprocess.call([\"rm\"])\n",
    "urllib.request.urlopen(u)\n",
    "eval(\"1\")\n",
    "exec(\"1\")\n",
    "compile (s)\n",
    "f = open(p, \"w\")\n",
    "open(p).read()\n",
    "os.system(\"ls\")\n",
    "os.spawnl(m)\n",
    "os.unlink(p); shutil.rmtree(d); pathlib.Path(p).unlink()\n",
    "__import__(m); globals(); locals(); vars()\n",
    "setattr(o, n, v); delattr(o, n)\n",
    "open(p, 'a'); requests.get(u); http.server; socket.socket()\n",
    "os.popen (c); commands.getoutput(c)\n",
    "os",
    ".remove(" }

Frags == {RootImport} \cup GISCalls \cup ImportLines \cup OtherFrags

RECURSIVE Concat(_)
Concat(s) == IF s = <<>> THEN "" ELSE Head(s) \o Concat(Tail(s))

\* what the callers of SpecCalls and SpecConc pass to ValidateCode
Requests == <<
    "arcpy.AddMessage(\"Done\")\n",
    "import json.decoder\nimport shutil\nshutil.rmtree(d)\n",
    "import subprocess\nsubprocess.call([\"rm\"])\n" >>

(***************************************************************************)
(* State.                                                                  *)
(***************************************************************************)
VARIABLES
    frags,        \* the fragments of the snippet last passed around
    snippet,      \* its text
    validator,    \* the Validator the generate handler keeps
    heap,         \* the ValidationResults declared so far, with their lists
    returned,     \* what the ValidateCode calls returned, in call order
    request,      \* the HTTP request being served
    response,     \* the response written to it
    goroutine,    \* the ValidateCode frame of each goroutine
    llmCalls      \* the calls of the language-model client, in call order

vars == <<frags, snippet, validator, heap, returned, request, response, goroutine, llmCalls>>

MaxGoroutines == 2

Goroutines == 1..MaxGoroutines

\* no request yet, no response yet
NoRequest == [endpoint |-> "none"]

NoResponse == [status |-> 0]

\* a goroutine that is not in ValidateCode
Idle == [pc |-> "idle", code |-> "", result |-> 0]

\* a returned ValidationResult: who called, on what, where the result is
\* kept, and the result as the caller read it on return
Returned(by, code, p, res) == [by |-> by, code |-> code, ptr |-> p, res |-> res]

\* the server has started (NewGenerateHandler has run)
Started ==
    /\ frags = <<>>
    /\ snippet = ""
    /\ validator = NewValidator
    /\ heap = <<>>
    /\ returned = <<>>
    /\ request = NoRequest
    /\ response = NoResponse
    /\ goroutine = [g \in Goroutines |-> Idle]
    /\ llmCalls = <<>>

Init == Started

\* a whole call of v.ValidateCode(code) by one caller
Call(by, v, code) ==
    \E res \in ValidateCode(v, code) :
        LET p == NewResult(heap)
        IN  /\ heap' = Store(heap, p, res)
            /\ returned' = Append(returned, Returned(by, code, p, res))

(***************************************************************************)
(* Spec: one ValidateCode call on every snippet.                           *)
(***************************************************************************)
\* the snippet to validate gets one fragment longer
Write ==
    /\ returned = <<>>
    /\ Len(frags) < MaxFrags
    /\ \E f \in Frags :
          /\ frags' = Append(frags, f)
          /\ snippet' = snippet \o f
    /\ UNCHANGED <<validator, heap, returned, request, response, goroutine, llmCalls>>

\* h.validator.ValidateCode(snippet)
Validate ==
    /\ returned = <<>>
    /\ Call("shared", validator, snippet)
    /\ validator' = ValidatorAfter(validator, snippet)
    /\ UNCHANGED <<frags, snippet, request, response, goroutine, llmCalls>>

Next == Write \/ Validate

Spec == Init /\ [][Next]_vars

\* the result of the latest call
Result == returned[Len(returned)].res

(***************************************************************************)
(* SpecCalls: calls one after another, on the Validator the generate       *)
(* handler keeps and on Validators built for the call.                     *)
(***************************************************************************)
MaxCalls == 3

\* GenerateHandler: h.validator.ValidateCode(code)
CallShared ==
    /\ Len(returned) < MaxCalls
    /\ \E n \in 1..Len(Requests) :
          /\ frags' = <<Requests[n]>>
          /\ snippet' = Requests[n]
          /\ Call("shared", validator, Requests[n])
          /\ validator' = ValidatorAfter(validator, Requests[n])
    /\ UNCHANGED <<request, response, goroutine, llmCalls>>

\* ValidateHandler: v := validator.NewValidator(); v.ValidateCode(code)
CallFresh ==
    /\ Len(returned) < MaxCalls
    /\ \E n \in 1..Len(Requests) :
          /\ frags' = <<Requests[n]>>
          /\ snippet' = Requests[n]
          /\ Call("fresh", NewValidator, Requests[n])
    /\ UNCHANGED <<validator, request, response, goroutine, llmCalls>>

NextCalls == CallShared \/ CallFresh

SpecCalls == Init /\ [][NextCalls]_vars

(***************************************************************************)
(* SpecConc: the goroutines of concurrent requests, each inside one call   *)
(* of ValidateCode on the Validator the generate handler keeps.  A step is *)
(* one check of ValidateCode; it reads the Validator and reads and writes  *)
(* the result object its own goroutine allocated.                          *)
(***************************************************************************)
\* goroutine g, at `at`, replaces its result object by obj and goes to `to`
Step(g, at, obj, to) ==
    /\ goroutine[g].pc = at
    /\ heap' = Store(heap, goroutine[g].result, obj)
    /\ goroutine' = [goroutine EXCEPT ![g].pc = to]
    /\ UNCHANGED <<frags, snippet, validator, returned, request, response, llmCalls>>

\* the goroutine enters ValidateCode: result := ValidationResult{...}.  The
\* goroutines are numbered in the order in which they enter.
Begin(g) ==
    /\ goroutine[g].pc = "idle"
    /\ IF g = 1 THEN TRUE ELSE goroutine[g - 1].pc # "idle"
    /\ \E n \in 1..Len(Requests) :
          LET p == NewResult(heap)
          IN  /\ heap' = Store(heap, p, InitialResult)
              /\ goroutine' = [goroutine EXCEPT ![g] =
                                  [pc |-> "patterns", code |-> Requests[n], result |-> p]]
    /\ UNCHANGED <<frags, snippet, validator, returned, request, response, llmCalls>>

\* 1. Check for dangerous patterns
RunDangerousPatterns(g) ==
    Step(g, "patterns",
         CheckDangerousPatterns(validator, goroutine[g].code, heap[goroutine[g].result]),
         "imports")

\* 2. Validate imports
RunImports(g) ==
    \E imports \in validateImports(validator, goroutine[g].code) :
        Step(g, "imports", CheckImports(heap[goroutine[g].result], imports), "file")

\* 3. Check for file operations
RunFileOperations(g) ==
    Step(g, "file", CheckFileOperations(goroutine[g].code, heap[goroutine[g].result]), "network")

\* 4. Check for network operations
RunNetworkOperations(g) ==
    Step(g, "network", CheckNetworkOperations(goroutine[g].code, heap[goroutine[g].result]),
         "system")

\* 5. Check for system calls
RunSystemCalls(g) ==
    Step(g, "system", CheckSystemCalls(goroutine[g].code, heap[goroutine[g].result]),
         "injection")

\* 6. Check for eval/exec
RunCodeInjection(g) ==
    Step(g, "injection", CheckCodeInjection(goroutine[g].code, heap[goroutine[g].result]),
         "clamp")

\* the clamp of the score, and return result
Return(g) ==
    /\ goroutine[g].pc = "clamp"
    /\ LET obj == ClampScore(heap[goroutine[g].result])
       IN  /\ heap' = Store(heap, goroutine[g].result, obj)
           /\ returned' = Append(returned,
                             Returned(g, goroutine[g].code, goroutine[g].result, obj))
    /\ goroutine' = [goroutine EXCEPT ![g].pc = "done"]
    /\ UNCHANGED <<frags, snippet, validator, request, response, llmCalls>>

NextConc ==
    \E g \in Goroutines :
        \/ Begin(g)
        \/ RunDangerousPatterns(g)
        \/ RunImports(g)
        \/ RunFileOperations(g)
        \/ RunNetworkOperations(g)
        \/ RunSystemCalls(g)
        \/ RunCodeInjection(g)
        \/ Return(g)

SpecConc == Init /\ [][NextConc]_vars

\* what ValidateCode returns on each of Requests when the call runs alone
RECURSIVE AloneFrom(_)
AloneFrom(n) ==
    IF n > Len(Requests) THEN <<>>
    ELSE (Requests[n] :> ValidateCode(NewValidator, Requests[n])) @@ AloneFrom(n + 1)

Alone == AloneFrom(1)

(***************************************************************************)
(* SpecHandlers: the HTTP handlers that return generated snippets, one      *)
(* request served.  The messages the source writes in Russian and the lock *)
(* sign of the security prefix are given in ASCII.                         *)
(***************************************************************************)
Methods == {"POST", "GET"}

\* req.Context: nil, without layers, with layers
Contexts == {"nil", "noLayers", "layers"}

\* the snippet block ExtractCodeAndExplanation finds in the model's reply
Replies ==
    Frags \cup {"", "r = urlopen(u)\n", "arcpy.analysis.Clip(\"in_memory/a\", b, c)\n"}

\* GenerateWarnings
GenerateWarnings(code, context) ==
    (IF context \in {"nil", "noLayers"}
        /\ (Contains(code, "SelectLayer") \/ Contains(code, "Buffer"))
     THEN <<"The code uses layers, but the project context is not available">>
     ELSE <<>>)
    \o (IF Contains(code, "Clip") \/ Contains(code, "Union") \/ Contains(code, "Intersect")
        THEN <<"The operation may take several minutes on large datasets">>
        ELSE <<>>)
    \o (IF Contains(code, "in_memory")
        THEN <<"The temporary in_memory storage is used">>
        ELSE <<>>)

\* http.Error(w, text, status)
HttpError(text, status) == [status |-> status, Error |-> text, Code |-> "", Warnings |-> <<>>]

\* a GenerateResponse (or AnalyzeScreenshotResponse) written with the status
JSONResponse(status, err, code, warnings) ==
    [status |-> status, Error |-> err, Code |-> code, Warnings |-> warnings]

RejectMessage ==
    "The generated code did not pass the security check. Try to rephrase the request."

\* the validation errors as they are added to the warnings
SecurityWarnings(errors) == [n \in 1..Len(errors) |-> "[lock] SECURITY: " \o errors[n]]

\* mutant: the threshold of the rejection is 40
RejectsBelowForty(validationResult) ==
    ~validationResult.IsValid /\ validationResult.Score < 40

\* mutant: a score of exactly 50 is rejected too
RejectsAtFifty(validationResult) ==
    ~validationResult.IsValid /\ validationResult.Score <= 50

\* If code is dangerous (score < 50), reject it
Rejects(validationResult) ==
    ~validationResult.IsValid /\ validationResult.Score < 50

\* mutant: every snippet with an invalid result is rejected
GenerateReplyRejectsInvalid(code, llmWarnings, validationResult) ==
    IF ~validationResult.IsValid
    THEN JSONResponse(400, RejectMessage, "",
                      llmWarnings \o SecurityWarnings(validationResult.Errors))
    ELSE JSONResponse(200, "", code, llmWarnings \o validationResult.Warnings)

\* GenerateHandler.Handle from the ValidateCode call on
GenerateReply(code, llmWarnings, validationResult) ==
    LET warnings == IF ~validationResult.IsValid
                    THEN llmWarnings \o SecurityWarnings(validationResult.Errors)
                    ELSE llmWarnings
    IN  IF Rejects(validationResult)
        THEN JSONResponse(400, RejectMessage, "", warnings)
        ELSE JSONResponse(200, "", code, warnings \o validationResult.Warnings)

\* the request, with what the model answers to it
GenerateRequests ==
    [endpoint : {"generate"}, method : Methods, decodes : BOOLEAN, context : Contexts,
     err : BOOLEAN, code : Replies]

\* GenerateHandler.Handle
GenerateHandle ==
    /\ request = NoRequest
    /\ \E req \in GenerateRequests :
          /\ request' = req
          /\ IF req.method # "POST"
             THEN /\ response' = HttpError("Method not allowed", 405)
                  /\ UNCHANGED <<frags, snippet, validator, heap, returned, llmCalls>>
             ELSE IF ~req.decodes
             THEN /\ response' = HttpError("Invalid request body", 400)
                  /\ UNCHANGED <<frags, snippet, validator, heap, returned, llmCalls>>
             ELSE IF req.err
             THEN /\ llmCalls' = Append(llmCalls, "GenerateCodeWithContext")
                  /\ response' = JSONResponse(500, "failed to generate content", "", <<>>)
                  /\ UNCHANGED <<frags, snippet, validator, heap, returned>>
             ELSE /\ llmCalls' = Append(llmCalls, "GenerateCodeWithContext")
                  /\ frags' = <<req.code>>
                  /\ snippet' = req.code
                  /\ Call("generate", validator, req.code)
                  /\ validator' = ValidatorAfter(validator, req.code)
                  /\ response' = GenerateReply(req.code,
                                               GenerateWarnings(req.code, req.context),
                                               returned'[Len(returned')].res)
    /\ UNCHANGED goroutine

\* the attempts the regenerate handler serves
MaxRetryAttempts == 3

RegenerateRequests ==
    [endpoint : {"regenerate"}, method : Methods, decodes : BOOLEAN, context : Contexts,
     attempt : (0 - 1)..(MaxRetryAttempts + 1), err : BOOLEAN, code : Replies]

\* mutant: attempt numbers below 1 are refused as well
AttemptsExceededOrNone(attempt) == attempt > MaxRetryAttempts \/ attempt < 1

\* req.Attempt > 3
AttemptsExceeded(attempt) == attempt > MaxRetryAttempts

\* RegenerateHandler.Handle
RegenerateHandle ==
    /\ request = NoRequest
    /\ \E req \in RegenerateRequests :
          /\ request' = req
          /\ IF req.method # "POST"
             THEN /\ response' = HttpError("Method not allowed", 405)
                  /\ UNCHANGED <<frags, snippet, llmCalls>>
             ELSE IF ~req.decodes
             THEN /\ response' = HttpError("Invalid request body", 400)
                  /\ UNCHANGED <<frags, snippet, llmCalls>>
             ELSE IF AttemptsExceeded(req.attempt)
             THEN /\ response' = JSONResponse(400, "Maximum retry attempts exceeded", "", <<>>)
                  /\ UNCHANGED <<frags, snippet, llmCalls>>
             ELSE IF req.err
             THEN /\ llmCalls' = Append(llmCalls, "RegenerateCode")
                  /\ response' = JSONResponse(500, "failed to regenerate content", "", <<>>)
                  /\ UNCHANGED <<frags, snippet>>
             ELSE /\ llmCalls' = Append(llmCalls, "RegenerateCode")
                  /\ frags' = <<req.code>>
                  /\ snippet' = req.code
                  /\ response' = JSONResponse(200, "", req.code,
                                              GenerateWarnings(req.code, req.context))
    /\ UNCHANGED <<validator, heap, returned, goroutine>>

\* what the request carries as its image: good or bad base64, the path of a
\* file that opens and reads, that does not open, that does not read, nothing
Images == {"base64", "badBase64", "path", "noFile", "unreadable", "none"}

AnalyzeRequests ==
    [endpoint : {"analyze"}, method : Methods, decodes : BOOLEAN, context : Contexts,
     image : Images, err : BOOLEAN, code : Replies]

\* AnalyzeMapScreenshot: the warnings it returns with the snippet
AnalyzeWarnings(code, context) == IF code # "" THEN GenerateWarnings(code, context) ELSE <<>>

\* AnalyzeHandler.Handle
AnalyzeHandle ==
    /\ request = NoRequest
    /\ \E req \in AnalyzeRequests :
          /\ request' = req
          /\ IF req.method # "POST"
             THEN /\ response' = HttpError("Method not allowed", 405)
                  /\ UNCHANGED <<frags, snippet, llmCalls>>
             ELSE IF ~req.decodes
             THEN /\ response' = HttpError("Invalid request body", 400)
                  /\ UNCHANGED <<frags, snippet, llmCalls>>
             ELSE IF req.image = "badBase64"
             THEN /\ response' = JSONResponse(400, "Invalid base64 image data", "", <<>>)
                  /\ UNCHANGED <<frags, snippet, llmCalls>>
             ELSE IF req.image = "noFile"
             THEN /\ response' = JSONResponse(400, "Could not open image file", "", <<>>)
                  /\ UNCHANGED <<frags, snippet, llmCalls>>
             ELSE IF req.image = "unreadable"
             THEN /\ response' = JSONResponse(500, "Could not read image file", "", <<>>)
                  /\ UNCHANGED <<frags, snippet, llmCalls>>
             ELSE IF req.image = "none"
             THEN /\ response' = JSONResponse(400,
                        "No image provided (imageBase64 or imagePath required)", "", <<>>)
                  /\ UNCHANGED <<frags, snippet, llmCalls>>
             ELSE IF req.err
             THEN /\ llmCalls' = Append(llmCalls, "AnalyzeMapScreenshot")
                  /\ response' = JSONResponse(500, "failed to analyze screenshot", "", <<>>)
                  /\ UNCHANGED <<frags, snippet>>
             ELSE /\ llmCalls' = Append(llmCalls, "AnalyzeMapScreenshot")
                  /\ frags' = <<req.code>>
                  /\ snippet' = req.code
                  /\ response' = JSONResponse(200, "", req.code,
                                              AnalyzeWarnings(req.code, req.context))
    /\ UNCHANGED <<validator, heap, returned, goroutine>>

NextHandlers == GenerateHandle \/ RegenerateHandle \/ AnalyzeHandle

SpecHandlers == Init /\ [][NextHandlers]_vars

(***************************************************************************)
(* SpecRules: one ValidateCode call on every snippet of a few statements   *)
(* taken from the inputs of the validator's tests and from statements that *)
(* exercise each rule.                                                     *)
(***************************************************************************)
MaxStatements == 2

\* calls that the system-command patterns are written for
SystemCommands == {
    "subprocess.call([\"rm\"])\n",
    "os.system(\"ls\")\n",
    "os.popen (c)\n",
    "commands.getoutput(c)\n" }

\* import statements, of allowed and of other modules
ImportStatements == {
    "import os\n",
    "import jsonx\n",
    "import json.decoder\n",
    "from os.path import join\n",
    "import arcpy_x\n",
    "import urllib.request\n",
    "from urllib.request import urlopen\n",
    "import math, urllib.request\n" }

\* calls into the GIS root namespace
GISStatements == {
    "arcpy.AddMessage(\"Done\")\n",
    "arcpy.analysis.Buffer(\"Rivers\", \"out\")\n",
    "arcpy.AddMessage(\"10 requests\")\n" }

OtherStatements == {
    "urllib.request.urlopen(u)\n",
    "os.remove(\"/tmp/x\")\n",
    "open(p).read()\n",
    "exec(\"1\")\n",
    "eval(\"1\")\n",
    "compile(s, f, m)\n" }

Statements == SystemCommands \cup ImportStatements \cup GISStatements \cup OtherStatements

\* the snippet to validate gets one statement longer
WriteStatement ==
    /\ returned = <<>>
    /\ Len(frags) < MaxStatements
    /\ \E f \in Statements :
          /\ frags' = Append(frags, f)
          /\ snippet' = snippet \o f
    /\ UNCHANGED <<validator, heap, returned, request, response, goroutine, llmCalls>>

NextRules == WriteStatement \/ Validate

SpecRules == Init /\ [][NextRules]_vars

(***************************************************************************)
(* SpecAPI: calls one after another on Validators that differ in the       *)
(* contents of the known-safe API set and in nothing else.                 *)
(***************************************************************************)
\* the contents given to allowedArcPy: those of getAllowedArcPyFunctions,
\* none, and the modules and calls the requests use
KnownAPISets == <<
    getAllowedArcPyFunctions,
    <<>>,
    <<MapEntry("shutil", TRUE), MapEntry("shutil.rmtree", TRUE),
      MapEntry("subprocess", TRUE), MapEntry("subprocess.call", TRUE),
      MapEntry("arcpy.AddMessage", FALSE)>> >>

\* &Validator{...} with allowedArcPy: api
ValidatorWith(api) == [NewValidator EXCEPT !.allowedArcPy = api]

\* ValidateCode on the Validator with the a-th known-safe API set
CallWithAPI ==
    /\ Len(returned) < MaxCalls
    /\ \E n \in 1..Len(Requests), a \in 1..Len(KnownAPISets) :
          /\ frags' = <<Requests[n]>>
          /\ snippet' = Requests[n]
          /\ Call(a, ValidatorWith(KnownAPISets[a]), Requests[n])
    /\ UNCHANGED <<validator, request, response, goroutine, llmCalls>>

NextAPI == CallWithAPI

SpecAPI == Init /\ [][NextAPI]_vars

(***************************************************************************)
(* The QGIS validator: the same ValidateCode, checks and heuristics, with  *)
(* rules of its own.  Its definitions carry the prefix QGIS.               *)
(***************************************************************************)
\* mutant: the table of the ArcPy validator without its first pattern
QGISDangerousPatternsShort == Tail(compileDangerousPatterns)

\* compileDangerousPatterns of the QGIS validator
QGISDangerousPatterns == <<
    "os\\.remove\\s*\\(",
    "os\\.unlink\\s*\\(",
    "shutil\\.rmtree\\s*\\(",
    "pathlib\\.Path\\s*\\([^)]+\\)\\.unlink\\s*\\(",
    "subprocess\\.[a-zA-Z_]+\\s*\\(",
    "os\\.system\\s*\\(",
    "os\\.popen\\s*\\(",
    "commands\\.[a-zA-Z_]+\\s*\\(",
    "eval\\s*\\(",
    "compile\\s*\\(",
    "__import__\\s*\\(",
    "open\\s*\\([^)]*['\"]w['\"]",
    "open\\s*\\([^)]*['\"]a['\"]",
    "urllib\\.[a-zA-Z_]+",
    "requests\\.[a-zA-Z_]+",
    "http\\.[a-zA-Z_]+",
    "socket\\.[a-zA-Z_]+",
    "globals\\s*\\(\\s*\\)",
    "locals\\s*\\(\\s*\\)",
    "vars\\s*\\(\\s*\\)",
    "delattr\\s*\\(",
    "setattr\\s*\\(" >>

\* getAllowedModules of the QGIS validator
QGISAllowedModules == <<
    MapEntry("qgis.core", TRUE),
    MapEntry("qgis.processing", TRUE),
    MapEntry("qgis.gui", TRUE),
    MapEntry("qgis.utils", TRUE),
    MapEntry("qgis.PyQt5", TRUE),
    MapEntry("qgis", TRUE),
    MapEntry("processing", TRUE),
    MapEntry("PyQt5", TRUE),
    MapEntry("os.path", TRUE),
    MapEntry("math", TRUE),
    MapEntry("datetime", TRUE),
    MapEntry("json", TRUE),
    MapEntry("re", TRUE),
    MapEntry("collections", TRUE) >>

\* getAllowedQGISFunctions
getAllowedQGISFunctions == <<
    MapEntry("QgsMessageLog.logMessage", TRUE),
    MapEntry("QgsMessageLog.Info", TRUE),
    MapEntry("QgsMessageLog.Warning", TRUE),
    MapEntry("QgsMessageLog.Critical", TRUE),
    MapEntry("processing.run", TRUE),
    MapEntry("processing.algorithmHelp", TRUE),
    MapEntry("processing.createAlgorithmDialog", TRUE),
    MapEntry("QgsProject.instance", TRUE),
    MapEntry("QgsProject.mapLayers", TRUE),
    MapEntry("QgsProject.addMapLayer", TRUE),
    MapEntry("QgsProject.removeMapLayer", TRUE),
    MapEntry("QgsVectorLayer", TRUE),
    MapEntry("QgsRasterLayer", TRUE),
    MapEntry("QgsVectorFileWriter", TRUE),
    MapEntry("QgsCoordinateReferenceSystem", TRUE),
    MapEntry("QgsGeometry", TRUE),
    MapEntry("QgsPoint", TRUE),
    MapEntry("QgsPointXY", TRUE),
    MapEntry("QgsFeature", TRUE),
    MapEntry("QgsField", TRUE),
    MapEntry("QgsFields", TRUE),
    MapEntry("iface.mapCanvas", TRUE),
    MapEntry("iface.activeLayer", TRUE),
    MapEntry("iface.addVectorLayer", TRUE) >>

\* NewValidator of the QGIS validator
QGISNewValidator == [dangerousPatterns |-> QGISDangerousPatterns,
                     allowedModules    |-> QGISAllowedModules,
                     allowedQGIS       |-> getAllowedQGISFunctions]

\* isModuleAllowed of the QGIS validator: the set of values it can return
QGISisModuleAllowed(v, module) ==
    IF MapGet(v.allowedModules, module) THEN {TRUE}
    ELSE IF HasPrefix(module, "qgis") THEN {TRUE}
    ELSE IF HasPrefix(module, "PyQt5") THEN {TRUE}
    ELSE {SubmoduleLoop(order, module, 1) : order \in MapOrders(v.allowedModules)}

\* validateImports of the QGIS validator, the loop over the matches
RECURSIVE QGISImportLoop(_, _, _, _)
QGISImportLoop(v, code, matches, n) ==
    IF n > Len(matches) THEN {<<>>}
    ELSE LET module == Submatch1(code, matches[n])
             rest   == QGISImportLoop(v, code, matches, n + 1)
         IN  UNION {{(IF ok THEN <<>> ELSE <<ImportError(module)>>) \o r : r \in rest}
                    : ok \in QGISisModuleAllowed(v, module)}

\* validateImports of the QGIS validator
QGISvalidateImports(v, code) ==
    {<<errors, <<>>>> : errors \in QGISImportLoop(v, code, FindAll(importPattern, code, 1), 1)}

\* ValidateCode of the QGIS validator: the results it can return
QGISValidateCode(v, code) ==
    LET r1 == CheckDangerousPatterns(v, code, InitialResult)
    IN  {ClampScore(
            CheckCodeInjection(code,
              CheckSystemCalls(code,
                CheckNetworkOperations(code,
                  CheckFileOperations(code,
                    CheckImports(r1, imports))))))
         : imports \in QGISvalidateImports(v, code)}

(***************************************************************************)
(* SpecVariants: the ArcPy validator and the QGIS validator called on the  *)
(* same snippet.                                                           *)
(***************************************************************************)
\* statements for both validators: calls, findings of every check, and
\* imports that one of them, both or neither allows
VariantStatements == {
    "arcpy.AddMessage(\"Done\")\n",
    "import arcpy\n",
    "from qgis.core import QgsProject\n",
    "import PyQt5x\n",
    "import processing\n",
    "import os\n",
    "import json.decoder\n",
    "os.remove(\"/tmp/x\")\n",
    "urllib.request.urlopen(u)\n",
    "subprocess.call([\"rm\"])\n",
    "open(p).read()\n",
    "exec(\"1\")\n" }

\* the snippet for the two validators gets one statement longer
WriteVariantStatement ==
    /\ returned = <<>>
    /\ Len(frags) < MaxStatements
    /\ \E f \in VariantStatements :
          /\ frags' = Append(frags, f)
          /\ snippet' = snippet \o f
    /\ UNCHANGED <<validator, heap, returned, request, response, goroutine, llmCalls>>

\* has a validator of this variant been called on the snippet
CalledBy(by) == \E i \in 1..Len(returned) : returned[i].by = by

\* ValidateCode of the ArcPy validator on the snippet
ValidateArcPy ==
    /\ ~CalledBy("arcpy")
    /\ Call("arcpy", NewValidator, snippet)
    /\ UNCHANGED <<frags, snippet, validator, request, response, goroutine, llmCalls>>

\* ValidateCode of the QGIS validator on the snippet
ValidateQGIS ==
    /\ ~CalledBy("qgis")
    /\ \E res \in QGISValidateCode(QGISNewValidator, snippet) :
          LET p == NewResult(heap)
          IN  /\ heap' = Store(heap, p, res)
              /\ returned' = Append(returned, Returned("qgis", snippet, p, res))
    /\ UNCHANGED <<frags, snippet, validator, request, response, goroutine, llmCalls>>

NextVariants == WriteVariantStatement \/ ValidateArcPy \/ ValidateQGIS

SpecVariants == Init /\ [][NextVariants]_vars

(***************************************************************************)

(* What fires on a snippet, read off the snippet alone.                    *)
(***************************************************************************)
AnyDangerousPattern(c) ==
    \E n \in 1..Len(compileDangerousPatterns) :
        MatchString(Prog(compileDangerousPatterns[n]), c)

AnyImportError(c) == \E imports \in validateImports(NewValidator, c) : imports[1] # <<>>

NoCheckFires(c) ==
    /\ ~AnyDangerousPattern(c)
    /\ ~AnyImportError(c)
    /\ ~hasFileOperations(c)
    /\ ~hasNetworkOperations(c)
    /\ ~hasSystemCalls(c)
    /\ ~hasCodeInjection(c)

\* nothing that is recorded as an error fires
NoErrorFires(c) ==
    /\ ~AnyDangerousPattern(c)
    /\ ~AnyImportError(c)
    /\ ~hasNetworkOperations(c)
    /\ ~hasSystemCalls(c)
    /\ ~hasCodeInjection(c)

\* the statements are GIS root-namespace calls, after at most an import of
\* the root module
OnlyGISCalls(s) ==
    /\ Len(s) >= 1
    /\ \A i \in 1..Len(s) : s[i] \in GISCalls \/ (i = 1 /\ s[i] = RootImport)
    /\ \E i \in 1..Len(s) : s[i] \in GISCalls

(***************************************************************************)
(* Claims checked under Spec.                                              *)
(***************************************************************************)
\* C1: a snippet in which at least one pattern of the dangerous-pattern
\* table matches is returned with IsValid = false and a non-empty Errors.
C1_DangerousIsInvalid ==
    (returned # <<>> /\ AnyDangerousPattern(snippet))
        => (~Result.IsValid /\ Result.Errors # <<>>)

C1_Witness == returned # <<>> /\ AnyDangerousPattern(snippet) /\ ~hasSystemCalls(snippet)

\* C2: the returned Score lies in 0..100, also when the deductions add up
\* to more than 100.
C2_ScoreInRange == returned # <<>> => (Result.Score >= 0 /\ Result.Score <= 100)

\* deductions of at least 50 + 50 + 50: a pattern, the system-call and the
\* snippet-injection heuristic
C2_Witness ==
    /\ returned # <<>>
    /\ AnyDangerousPattern(snippet) /\ hasSystemCalls(snippet) /\ hasCodeInjection(snippet)
    /\ Result.Score = 0

\* C3: a result with a non-empty Errors list has IsValid = false.
C3_ErrorsImplyInvalid == (returned # <<>> /\ Result.Errors # <<>>) => ~Result.IsValid

\* errors of two different checks, neither of them a dangerous pattern
C3_Witness ==
    /\ returned # <<>>
    /\ ~AnyDangerousPattern(snippet)
    /\ \E n \in 1..Len(Result.Errors) : Result.Errors[n] = "Network operations are forbidden"
    /\ AnyImportError(snippet)

\* C4: ValidateCode returns a result for every snippet, the empty one
\* included, and the result is the clean pass when no check fires.
C4_TotalAndCleanPass ==
    /\ returned = <<>> => ValidateCode(validator, snippet) # {}
    /\ (returned # <<>> /\ NoCheckFires(snippet))
          => Result = [IsValid |-> TRUE, Errors |-> <<>>, Warnings |-> <<>>, Score |-> 100]

C4_Witness == returned # <<>> /\ NoCheckFires(snippet) /\ Len(frags) = MaxFrags

\* C7 as stated: a snippet made only of GIS root-namespace calls is valid
\* with Score >= 80.
C7_GISCallsAreValid ==
    (returned # <<>> /\ OnlyGISCalls(frags)) => (Result.IsValid /\ Result.Score >= 80)

\* C7 amended: a snippet made only of GIS root-namespace calls, in whose text
\* nothing matches a dangerous pattern, the import check or the network,
\* system-call or snippet-injection heuristic, is valid with Score >= 80.
C7_CleanGISCallsAreValid ==
    (returned # <<>> /\ OnlyGISCalls(frags) /\ NoErrorFires(snippet))
        => (Result.IsValid /\ Result.Score >= 80)

\* a GIS call on which the file-operation heuristic fires
C7_Witness ==
    /\ returned # <<>> /\ OnlyGISCalls(frags) /\ NoErrorFires(snippet)
    /\ frags[1] = RootImport
    /\ hasFileOperations(snippet)

(***************************************************************************)
(* Claims checked under SpecCalls.                                         *)
(***************************************************************************)
\* C8: all the calls on the same input return the same IsValid, Errors (the
\* same entries in the same order), Warnings and Score, whichever Validator
\* they are made on and whatever calls on other inputs come between them.
C8_SameInputSameResult ==
    \A i, j \in 1..Len(returned) :
        returned[i].code = returned[j].code => returned[i].res = returned[j].res

\* two calls on an input with an import that only the range over the
\* allowed modules admits and with two errors, one on the shared and one on a
\* fresh Validator, with a call on another input between them
C8_Witness ==
    /\ Len(returned) = 3
    /\ returned[1].code = Requests[2] /\ returned[3].code = Requests[2]
    /\ returned[2].code = Requests[3]
    /\ returned[1].by = "shared" /\ returned[3].by = "fresh"
    /\ Len(returned[3].res.Errors) >= 2

\* C10: no call changes the Validator's dangerous-pattern list, allowed-module
\* set or known-safe API set, and every call returns a result object of its
\* own: no two calls return the same object, and no later call changes the
\* Errors, Warnings or any other field of a result returned before.
C10_RulesKeptResultsFresh ==
    /\ validator.dangerousPatterns = compileDangerousPatterns
    /\ validator.allowedModules = getAllowedModules
    /\ validator.allowedArcPy = getAllowedArcPyFunctions
    /\ \A i, j \in 1..Len(returned) : i # j => returned[i].ptr # returned[j].ptr
    /\ \A i \in 1..Len(returned) : heap[returned[i].ptr] = returned[i].res

\* the shared Validator has judged a module that is not allowed, and two
\* results with errors and one without have been returned
C10_Witness ==
    /\ Len(returned) = 3
    /\ returned[1].by = "shared" /\ returned[1].code = Requests[2]
    /\ returned[2].by = "shared" /\ returned[2].code = Requests[3]
    /\ returned[3].code = Requests[1]
    /\ returned[1].res.Errors # <<>> /\ returned[2].res.Errors # <<>>
    /\ returned[1].res.Errors # returned[2].res.Errors

(***************************************************************************)
(* Claims checked under SpecConc.                                          *)
(***************************************************************************)
\* C9: whatever the interleaving of the calls running on the shared
\* Validator, every call returns a result it can return when it runs alone,
\* the result stays as returned while the other calls go on, no call writes
\* the Validator, and no two calls work on the same result object.
C9_ConcurrentCallsIndependent ==
    /\ validator = NewValidator
    /\ \A i \in 1..Len(returned) :
          /\ returned[i].res \in Alone[returned[i].code]
          /\ heap[returned[i].ptr] = returned[i].res
    /\ \A g1, g2 \in Goroutines :
          (g1 # g2 /\ goroutine[g1].pc # "idle" /\ goroutine[g2].pc # "idle")
              => goroutine[g1].result # goroutine[g2].result

\* a call that began after another call did and returned before it, each
\* with errors of its own
C9_Witness ==
    /\ Len(returned) = 2
    /\ returned[1].ptr > returned[2].ptr
    /\ returned[1].code # returned[2].code
    /\ returned[1].res.Errors # <<>> /\ returned[2].res.Errors # <<>>

(***************************************************************************)
(* Claims checked under SpecHandlers.                                      *)
(***************************************************************************)
\* the generate handler got a snippet from the model
Generated ==
    /\ request.endpoint = "generate"
    /\ request.method = "POST" /\ request.decodes /\ ~request.err

\* C5: the generate handler answers a generated snippet with HTTP 400, the
\* rejection message and an empty snippet field exactly when the validator's
\* Score for it is below 50; for a Score of 50 or more it answers with the
\* snippet and with the warnings of the model, the validator's errors under
\* the security prefix and the validator's warnings, in that order.
C5_RejectsIffScoreBelow50 ==
    Generated =>
        /\ (response.status = 400 /\ response.Error = RejectMessage /\ response.Code = "")
              <=> Result.Score < 50
        /\ Result.Score >= 50 =>
              /\ response.status = 200
              /\ response.Code = request.code
              /\ response.Warnings =
                    GenerateWarnings(request.code, request.context)
                       \o SecurityWarnings(Result.Errors) \o Result.Warnings

\* a snippet with an error and a warning of the validator and a Score of
\* exactly 50 has been returned
C5_Witness ==
    /\ Generated
    /\ Result.Score = 50 /\ Result.Errors # <<>> /\ Result.Warnings # <<>>
    /\ response.Code = request.code /\ response.Code # ""

\* C6 as stated: a snippet that a handler has returned to the client has been
\* passed to the validator exactly once while the request was served, and the
\* response is the one the verdict calls for.
C6_ReturnedSnippetWasValidated ==
    (response.status # 0 /\ response.Code # "") =>
        /\ Len(returned) = 1
        /\ returned[1].code = response.Code
        /\ ~Rejects(returned[1].res)


(***************************************************************************)
(* Claims checked under SpecRules.                                         *)
(***************************************************************************)
\* the patterns listed under "System commands" in compileDangerousPatterns:
\* subprocess\.[a-zA-Z_]+\s*\(, os\.system\s*\(, os\.popen\s*\(,
\* commands\.[a-zA-Z_]+\s*\(
SystemCommandPatterns == SubSeq(compileDangerousPatterns, 5, 8)

MatchesSystemCommand(c) ==
    \E n \in 1..Len(SystemCommandPatterns) : MatchString(Prog(SystemCommandPatterns[n]), c)

\* C11: every snippet that one of the system-command patterns matches also
\* sets off the system-call heuristic: its result has the error of the
\* pattern and the error of the heuristic, which together deduct 100 or
\* more, so that Score is 0 and IsValid is false.
C11_SystemCommandScoresZero ==
    (returned # <<>> /\ MatchesSystemCommand(snippet)) =>
        /\ hasSystemCalls(snippet)
        /\ \E n \in 1..Len(SystemCommandPatterns) :
              \E i \in 1..Len(Result.Errors) :
                  Result.Errors[i] = PatternError(SystemCommandPatterns[n])
        /\ \E i \in 1..Len(Result.Errors) : Result.Errors[i] = "System calls are forbidden"
        /\ Result.Score = 0
        /\ ~Result.IsValid

\* a snippet that a system-command pattern alone matches, with whitespace
\* before the parenthesis, has been validated: the two errors
C11_Witness ==
    /\ returned # <<>>
    /\ frags = <<"arcpy.AddMessage(\"Done\")\n", "os.popen (c)\n">>
    /\ MatchesSystemCommand(snippet)
    /\ Len(Result.Errors) = 2
    /\ Result.Score = 0

\* validateImports: match[1] of every match of the import pattern, in the
\* order of the matches
ImportedModules(c) ==
    LET matches == FindAll(importPattern, c, 1)
    IN  [n \in 1..Len(matches) |-> Submatch1(c, matches[n])]

Imports(c, module) ==
    LET modules == ImportedModules(c)
    IN  \E n \in 1..Len(modules) : modules[n] = module

HasError(res, msg) == \E i \in 1..Len(res.Errors) : res.Errors[i] = msg

OsRemovePattern == compileDangerousPatterns[1]

\* of all the checks, only the pattern rule of the given pattern fires
OnlyPatternFires(c, pattern) ==
    /\ \A n \in 1..Len(compileDangerousPatterns) :
          MatchString(Prog(compileDangerousPatterns[n]), c) <=> compileDangerousPatterns[n] = pattern
    /\ ~AnyImportError(c)
    /\ ~hasFileOperations(c)
    /\ ~hasNetworkOperations(c)
    /\ ~hasSystemCalls(c)
    /\ ~hasCodeInjection(c)

\* C13: a snippet that contains os.remove( is invalid, has an error that
\* names the os.remove pattern, and has a Score of at most 50: exactly 50,
\* with that error alone and no warning, when no other check fires.
C13_OsRemoveIsRejected ==
    (returned # <<>> /\ Contains(snippet, "os.remove(")) =>
        /\ ~Result.IsValid
        /\ \E i \in 1..Len(Result.Errors) : Contains(Result.Errors[i], OsRemovePattern)
        /\ Result.Score <= 50
        /\ OnlyPatternFires(snippet, OsRemovePattern) =>
              /\ Len(Result.Errors) = 1
              /\ Result.Warnings = <<>>
              /\ Result.Score = 50

\* os.remove( has been validated after a GIS call, with nothing else firing,
\* and the error holds the text of the pattern
C13_Witness ==
    /\ returned # <<>>
    /\ frags = <<"arcpy.AddMessage(\"Done\")\n", "os.remove(\"/tmp/x\")\n">>
    /\ OnlyPatternFires(snippet, OsRemovePattern)
    /\ Result.Score = 50
    /\ Contains(Result.Errors[1], "remove")

\* the snippet is made of calls into the GIS root namespace only
OnlyGISStatements(s) == Len(s) >= 1 /\ \A i \in 1..Len(s) : s[i] \in GISStatements

C15_ValidatorWarningsInResponse ==
    Generated =>
        \A i \in 1..Len(Result.Warnings) :
            \E j \in 1..Len(response.Warnings) : response.Warnings[j] = Result.Warnings[i]

(***************************************************************************)
(* Claims checked under SpecRules: the score.                              *)
(***************************************************************************)
\* the positions in compileDangerousPatterns of the patterns that match
Matching(c) ==
    {n \in 1..Len(compileDangerousPatterns) : MatchString(Prog(compileDangerousPatterns[n]), c)}

\* 1 for a check that fires, 0 for one that does not
Fired(b) == IF b THEN 1 ELSE 0

\* the modules of the import statements of c that are not permitted, in the
\* order of the statements
Offending(c) ==
    SelectSeq(ImportedModules(c), LAMBDA module : FALSE \in isModuleAllowed(NewValidator, module))

\* C17: Score is 100 less 50 for each pattern that matches, 30 for the
\* imports, 10 for file operations, 40 for network operations, 50 for system
\* calls and 50 for injection, and 0 if that is negative: every check is run
\* on every call, whatever the checks before it found.  Each matching
\* pattern, the network, system-call and injection checks add one error each,
\* the import check one for each offending import.
C17_ScoreIsSumOfDeductions ==
    returned # <<>> =>
        LET k   == Cardinality(Matching(snippet))
            n   == Len(Offending(snippet))
            net == Fired(hasNetworkOperations(snippet))
            sys == Fired(hasSystemCalls(snippet))
            inj == Fired(hasCodeInjection(snippet))
            deductions == 50 * k + 30 * Fired(n >= 1) + 10 * Fired(hasFileOperations(snippet))
                             + 40 * net + 50 * sys + 50 * inj
        IN  /\ Result.Score = (IF deductions > 100 THEN 0 ELSE 100 - deductions)
            /\ Len(Result.Errors) = k + n + net + sys + inj

\* a pattern and the import check have both fired, and nothing else, on the
\* input of TestValidateCode_FileRemoval: 100 - 50 - 30
C17_Witness ==
    /\ returned # <<>>
    /\ frags = <<"import os\n", "os.remove(\"/tmp/x\")\n">>
    /\ Cardinality(Matching(snippet)) = 1 /\ Len(Offending(snippet)) = 1
    /\ Result.Score = 20
    /\ Len(Result.Errors) = 2

(***************************************************************************)
(* Claims checked under SpecRules: the imports.                            *)
(***************************************************************************)
\* the keys of getAllowedModules
AllowedNames == {getAllowedModules[n].k : n \in 1..Len(getAllowedModules)}

\* the three rules for a module name
Permitted(module) ==
    \/ module \in AllowedNames
    \/ HasPrefix(module, "arcpy")
    \/ \E allowed \in AllowedNames : HasPrefix(module, allowed \o ".")

\* how many entries of a sequence equal x
Count(seq, x) == Cardinality({i \in 1..Len(seq) : seq[i] = x})

ExpectedImportErrors(c) ==
    LET modules == SelectSeq(ImportedModules(c), LAMBDA module : ~Permitted(module))
    IN  [i \in 1..Len(modules) |-> ImportError(modules[i])]

\* the import errors among the errors of a result, in their order
ImportErrorsOf(res, c) ==
    LET modules == ImportedModules(c)
    IN  SelectSeq(res.Errors, LAMBDA e : \E n \in 1..Len(modules) : e = ImportError(modules[n]))

\* no check other than the import check fires
OnlyImportsMayFire(c) ==
    /\ ~hasFileOperations(c)
    /\ ~hasNetworkOperations(c)
    /\ ~hasSystemCalls(c)
    /\ ~hasCodeInjection(c)
    /\ Matching(c) = {}

\* C19: the import check adds one error for each import statement whose
\* module is not permitted, in the order of the statements, and deducts 30
\* once if there is any such statement, however many there are: with no other
\* check firing, n >= 1 offending imports give n errors and Score 70.
C19_OneErrorPerImportThirtyOnce ==
    returned # <<>> =>
        LET expected == ExpectedImportErrors(snippet)
        IN  /\ ImportErrorsOf(Result, snippet) = expected
            /\ OnlyImportsMayFire(snippet) =>
                  /\ Result.Errors = expected
                  /\ Result.Score = (IF expected = <<>> THEN 100 ELSE 70)
                  /\ Result.IsValid <=> expected = <<>>

\* two import statements of modules that are not permitted have been
\* validated, with no other check firing: two errors in their order, 30 off
C19_Witness ==
    /\ returned # <<>>
    /\ frags = <<"import jsonx\n", "import os\n">>
    /\ OnlyImportsMayFire(snippet)
    /\ Result.Errors = <<ImportError("jsonx"), ImportError("os")>>
    /\ Result.Score = 70

(***************************************************************************)
(* Claims checked under SpecRules: the file-operation heuristic.           *)
(***************************************************************************)
FileWarning == "Code contains file operations - additional review required"

\* C20: the file-operation heuristic adds one warning, however many file
\* operations there are, and no error, and IsValid is what the other checks
\* make it; a snippet on which it alone fires is valid with no error, that
\* one warning and Score 90.
C20_FileOperationsOnlyWarn ==
    returned # <<>> =>
        LET noError == /\ ~hasNetworkOperations(snippet)
                       /\ ~hasSystemCalls(snippet)
                       /\ ~hasCodeInjection(snippet)
                       /\ ExpectedImportErrors(snippet) = <<>>
                       /\ Matching(snippet) = {}
        IN  /\ Result.Warnings = (IF hasFileOperations(snippet) THEN <<FileWarning>> ELSE <<>>)
            /\ ~HasError(Result, FileWarning)
            /\ Result.IsValid <=> noError
            /\ (hasFileOperations(snippet) /\ noError) =>
                  Result = [IsValid |-> TRUE, Errors |-> <<>>,
                            Warnings |-> <<FileWarning>>, Score |-> 90]

\* a snippet with two file operations, an open and a read, and nothing else
\* that a check looks for has been validated
C20_Witness ==
    /\ returned # <<>>
    /\ frags = <<"arcpy.AddMessage(\"Done\")\n", "open(p).read()\n">>
    /\ hasFileOperations(snippet)
    /\ Result.IsValid
    /\ Result.Score = 90

(***************************************************************************)
\* C16: the known-safe API set does not bear on the result: calls on the
\* same snippet made on Validators that differ only in the contents of that
\* set return the same IsValid, Errors, Warnings and Score.
C16_KnownAPISetIsInert ==
    \A i, j \in 1..Len(returned) :
        (returned[i].by # returned[j].by /\ returned[i].code = returned[j].code)
            => returned[i].res = returned[j].res

\* a snippet that imports and calls a module has been validated with the
\* set of NewValidator, with no set, and with a set that names the module
\* and the call
C16_Witness ==
    /\ Len(returned) = 3
    /\ \A i \in 1..3 : returned[i].by = i /\ returned[i].code = Requests[2]
    /\ MapGet(KnownAPISets[3], "shutil")
    /\ HasError(returned[3].res, ImportError("shutil"))

(***************************************************************************)
(* Claims checked under SpecRules: findings that overlap, and the order of *)
(* the errors.                                                             *)
(***************************************************************************)
\* eval\s*\( and compile\s*\(, listed under "Code execution" in
\* compileDangerousPatterns
EvalPattern == compileDangerousPatterns[9]

CompilePattern == compileDangerousPatterns[10]

\* C21: a snippet with the text eval( or compile( sets off both the pattern
\* rule of that call and the injection heuristic: its result has the error
\* of the pattern and the error of the heuristic, at least two errors, which
\* deduct 100 or more, so that Score is 0.
C21_EvalCompileFireTwice ==
    returned # <<>> =>
        /\ Contains(snippet, "eval(") =>
              /\ HasError(Result, PatternError(EvalPattern))
              /\ HasError(Result, "Code injection attempt detected (eval/exec)")
              /\ Len(Result.Errors) >= 2 /\ Result.Score = 0 /\ ~Result.IsValid
        /\ Contains(snippet, "compile(") =>
              /\ HasError(Result, PatternError(CompilePattern))
              /\ HasError(Result, "Code injection attempt detected (eval/exec)")
              /\ Len(Result.Errors) >= 2 /\ Result.Score = 0 /\ ~Result.IsValid

\* compile( has been validated after a GIS call: the two errors and nothing
\* else
C21_Witness ==
    /\ returned # <<>>
    /\ frags = <<"arcpy.AddMessage(\"Done\")\n", "compile(s, f, m)\n">>
    /\ Contains(snippet, "compile(")
    /\ Len(Result.Errors) = 2
    /\ Result.Score = 0

\* the errors of the pattern rules that match, in the order of the table
ExpectedPatternErrors(c) ==
    LET matching == SelectSeq(compileDangerousPatterns, LAMBDA pattern : MatchString(Prog(pattern), c))
    IN  [i \in 1..Len(matching) |-> PatternError(matching[i])]

\* the error of a heuristic, if it fires
ErrorIf(b, msg) == IF b THEN <<msg>> ELSE <<>>

\* C22: Errors holds the errors check by check and not in the order of the
\* text: the errors of the matching patterns in the order of the pattern
\* table, then the import errors in the order of the import statements, then
\* the network error, the system-call error and the injection error, each of
\* these three once at most.
C22_ErrorsOrderedByCheck ==
    returned # <<>> =>
        Result.Errors =
            ExpectedPatternErrors(snippet)
               \o ExpectedImportErrors(snippet)
               \o ErrorIf(hasNetworkOperations(snippet), "Network operations are forbidden")
               \o ErrorIf(hasSystemCalls(snippet), "System calls are forbidden")
               \o ErrorIf(hasCodeInjection(snippet), "Code injection attempt detected (eval/exec)")

\* a snippet whose second statement matches an earlier pattern of the table
\* than its first has been validated: the errors are in the order of the
\* table, with the heuristic's error after them
C22_Witness ==
    /\ returned # <<>>
    /\ frags = <<"os.system(\"ls\")\n", "os.remove(\"/tmp/x\")\n">>
    /\ Len(Result.Errors) = 3
    /\ Contains(Result.Errors[1], "remove")
    /\ Contains(Result.Errors[2], "system")
    /\ Result.Errors[3] = "System calls are forbidden"

(***************************************************************************)
(* Claims checked under SpecRules: IsValid, Errors and Score together.     *)
(***************************************************************************)
\* C24: in every result of ValidateCode IsValid is true exactly when Errors
\* is empty.
C24_ValidIffNoErrors == returned # <<>> => (Result.IsValid <=> Result.Errors = <<>>)

\* results of both kinds have been returned for two-statement snippets: here
\* an invalid one whose only finding is one import error, after a statement
\* that leaves a warning
C24_Witness ==
    /\ returned # <<>>
    /\ frags = <<"open(p).read()\n", "import os\n">>
    /\ ~Result.IsValid
    /\ Len(Result.Errors) = 1
    /\ Result.Warnings # <<>>

(***************************************************************************)
(* Claims checked under SpecRules: the scores of valid and invalid results. *)
(***************************************************************************)
\* C25: in every result of ValidateCode IsValid is true exactly when Score
\* is 90 or more: a valid result has Score 100 or 90, an invalid one 70 at
\* most, every Score is a multiple of 10 and none is 80; so the generate
\* handler, given a valid result, does not reject the snippet.
C25_ValidIffScoreAtLeast90 ==
    returned # <<>> =>
        /\ Result.IsValid <=> Result.Score >= 90
        /\ Result.IsValid => Result.Score \in {90, 100}
        /\ ~Result.IsValid => Result.Score <= 70
        /\ Result.Score % 10 = 0
        /\ Result.Score # 80
        /\ Result.IsValid =>
              /\ ~Rejects(Result)
              /\ GenerateReply(snippet, <<>>, Result).status = 200
              /\ GenerateReply(snippet, <<>>, Result).Code = snippet

\* the invalid result with the highest Score: import errors and nothing else
C25_Witness ==
    /\ returned # <<>>
    /\ frags = <<"import os\n", "import jsonx\n">>
    /\ ~Result.IsValid
    /\ Result.Score = 70

(***************************************************************************)
(* Claims checked under SpecRules: the root namespace.                     *)
(***************************************************************************)
\* the module is an allowed name, the GIS root module, or a dotted submodule
\* of one of these
RootOrSubmodule(module) ==
    \/ module \in AllowedNames
    \/ module = "arcpy"
    \/ HasPrefix(module, "arcpy.")
    \/ \E allowed \in AllowedNames : HasPrefix(module, allowed \o ".")

\* C27 as stated: the import of a module that is not an allowed name, nor the
\* GIS root module, nor a dotted submodule of either, gets an import error,
\* also when its name begins with the letters of the root namespace.
C27_RootPrefixNeedsDot ==
    returned # <<>> =>
        LET modules == ImportedModules(snippet)
        IN  \A n \in 1..Len(modules) :
                ~RootOrSubmodule(modules[n]) => HasError(Result, ImportError(modules[n]))

(***************************************************************************)

(* Claims checked under SpecRules: the module of an import statement.      *)
(***************************************************************************)
\* the first dotted identifier after the keyword of each import statement
FirstName ==
    ("import os\n" :> "os")
       @@ ("import jsonx\n" :> "jsonx")
       @@ ("import json.decoder\n" :> "json.decoder")
       @@ ("from os.path import join\n" :> "os.path")
       @@ ("import arcpy_x\n" :> "arcpy_x")
       @@ ("import urllib.request\n" :> "urllib.request")
       @@ ("from urllib.request import urlopen\n" :> "urllib.request")
       @@ ("import math, urllib.request\n" :> "math")

\* the first names of the import statements among the statements s, in order
RECURSIVE FirstNames(_)
FirstNames(s) ==
    IF s = <<>> THEN <<>>
    ELSE (IF Head(s) \in ImportStatements THEN <<FirstName[Head(s)]>> ELSE <<>>)
            \o FirstNames(Tail(s))

\* C28: of every statement that starts a line with import or from, one module
\* name is checked, the first dotted identifier after the keyword; a further
\* name of a comma-separated list, such as the second of
\* "import math, urllib.request", is not checked and gets no import error.
C28_FirstNameOnlyIsChecked ==
    returned # <<>> =>
        /\ ImportedModules(snippet) = FirstNames(frags)
        /\ \A i \in 1..Len(Result.Errors) :
              HasPrefix(Result.Errors[i], "Module '") =>
                  \E n \in 1..Len(FirstNames(frags)) :
                      Result.Errors[i] = ImportError(FirstNames(frags)[n])

\* an import of an allowed module and, after a comma, of one that is not
\* allowed has been validated next to an import that is refused: one import
\* error, for the module of the second statement
C28_Witness ==
    /\ returned # <<>>
    /\ frags = <<"import math, urllib.request\n", "import os\n">>
    /\ ImportedModules(snippet) = <<"math", "os">>
    /\ HasError(Result, ImportError("os"))
    /\ ~HasError(Result, ImportError("urllib.request"))

(***************************************************************************)

(* Claims checked under SpecHandlers: the calls the handlers make.         *)
(***************************************************************************)
\* C23: while it serves a request the generate handler calls ValidateCode
\* once, after the call of the language model has returned without error,
\* and not at all when the method is not POST, the body does not decode or
\* the model call fails; a response with a snippet in it is written only
\* when ValidateCode has returned for that snippet with a Score of 50 or more.
C23_ValidatedAfterModelCall ==
    request.endpoint = "generate" =>
        /\ Len(returned) = (IF request.method = "POST" /\ request.decodes /\ ~request.err
                            THEN 1 ELSE 0)
        /\ returned # <<>> => llmCalls = <<"GenerateCodeWithContext">>
        /\ (request.method # "POST" \/ ~request.decodes) => llmCalls = <<>>
        /\ response.Code # "" =>
              /\ returned # <<>>
              /\ returned[1].code = response.Code
              /\ returned[1].res.Score >= 50

\* a request has been answered with a snippet that the validator found an
\* error in, after one call of the model and one of the validator
C23_Witness ==
    /\ request.endpoint = "generate"
    /\ llmCalls = <<"GenerateCodeWithContext">>
    /\ Len(returned) = 1
    /\ response.status = 200 /\ response.Code # ""
    /\ returned[1].code = response.Code
    /\ ~returned[1].res.IsValid

\* one finding of 50 points and no other: one matching pattern, or the
\* system-call heuristic, or the injection heuristic
OneFiftyPointFinding(c) ==
    /\ ~hasFileOperations(c)
    /\ ~hasNetworkOperations(c)
    /\ ImportedModules(c) = <<>>
    /\ Cardinality(Matching(c)) + Fired(hasSystemCalls(c)) + Fired(hasCodeInjection(c)) = 1

\* C26: a snippet with one finding of 50 points and no other, such as
\* os.remove( with no import line or exec(, gets Score 50 and IsValid false,
\* and the generate handler, which rejects below 50 only, answers with HTTP
\* 200, the snippet, and the error as a security warning.
C26_ScoreFiftyIsReturned ==
    (Generated /\ OneFiftyPointFinding(request.code)) =>
        /\ Result.Score = 50
        /\ ~Result.IsValid
        /\ Len(Result.Errors) = 1
        /\ response.status = 200
        /\ response.Code = request.code
        /\ response.Warnings =
              GenerateWarnings(request.code, request.context)
                 \o <<"[lock] SECURITY: " \o Result.Errors[1]>>

\* the model has answered with exec(, which the injection heuristic alone
\* covers, and the snippet has gone out
C26_Witness ==
    /\ Generated
    /\ request.code = "exec(\"1\")\n"
    /\ OneFiftyPointFinding(request.code)
    /\ Result.Score = 50
    /\ response.status = 200
    /\ response.Code = "exec(\"1\")\n"

\* C29: the regenerate handler makes no call of the language model for a
\* request with an attempt number above 3, which it answers with HTTP 400,
\* "Maximum retry attempts exceeded" and no snippet; for every POST request
\* that decodes with an attempt number of 3 or less, 0 and negative numbers
\* included, it makes one call of the model.
C29_RegenerateCallsModelUpTo3 ==
    (request.endpoint = "regenerate" /\ request.method = "POST" /\ request.decodes) =>
        IF request.attempt > 3
        THEN /\ llmCalls = <<>>
             /\ response.status = 400
             /\ response.Error = "Maximum retry attempts exceeded"
             /\ response.Code = ""
        ELSE llmCalls = <<"RegenerateCode">>

\* a request with a negative attempt number has been served with a snippet
\* from the model
C29_Witness ==
    /\ request.endpoint = "regenerate"
    /\ request.method = "POST" /\ request.decodes
    /\ request.attempt < 0
    /\ llmCalls = <<"RegenerateCode">>
    /\ response.status = 200 /\ response.Code # ""


(***************************************************************************)
(* Claims checked under SpecVariants.                                      *)
(***************************************************************************)
\* the result the validator of a variant returned for the snippet
ResultOf(by) == returned[CHOOSE i \in 1..Len(returned) : returned[i].by = by].res

\* the errors of a result that are not import errors, in their order
OtherErrors(res) == SelectSeq(res.Errors, LAMBDA e : ~HasPrefix(e, "Module '"))

HasImportError(res) == \E i \in 1..Len(res.Errors) : HasPrefix(res.Errors[i], "Module '")

\* C30: the ArcPy validator and the QGIS validator differ in the import
\* check alone: on a snippet with no import or from statement they return
\* the same IsValid, Errors, Warnings and Score, and on any snippet the
\* same warnings and the same errors other than import errors; Score and
\* IsValid differ only where one result has import errors and the other has
\* none, Score by the 30 of the import check at most.
C30_VariantsDifferInImportsOnly ==
    (CalledBy("arcpy") /\ CalledBy("qgis")) =>
        LET a == ResultOf("arcpy")
            q == ResultOf("qgis")
        IN  /\ ImportedModules(snippet) = <<>> => a = q
            /\ a.Warnings = q.Warnings
            /\ OtherErrors(a) = OtherErrors(q)
            /\ HasImportError(a) = HasImportError(q) =>
                  (a.Score = q.Score /\ a.IsValid = q.IsValid)
            /\ (HasImportError(a) /\ ~HasImportError(q)) =>
                  (a.Score <= q.Score /\ q.Score - a.Score <= 30 /\ ~a.IsValid)
            /\ (HasImportError(q) /\ ~HasImportError(a)) =>
                  (q.Score <= a.Score /\ a.Score - q.Score <= 30 /\ ~q.IsValid)

\* both validators have judged a snippet with a finding of a pattern and an
\* import that the QGIS validator alone allows
C30_Witness ==
    /\ CalledBy("arcpy") /\ CalledBy("qgis")
    /\ frags = <<"from qgis.core import QgsProject\n", "os.remove(\"/tmp/x\")\n">>
    /\ ResultOf("arcpy").Score = 20
    /\ ResultOf("qgis").Score = 50
    /\ Len(ResultOf("arcpy").Errors) = 2
    /\ Len(ResultOf("qgis").Errors) = 1

====
